---- MODULE Spec2Model ----
(***************************************************************************)
(* Model of enhanced_app.py: the POST /process_code pipeline (rate limiter *)
(* decorator, request parsing, input validation, dispatch, the four        *)
(* handlers) and the module-level request_counts map.                      *)
(*                                                                         *)
(* Strings that the code concatenates or tests by suffix (the rate-limit   *)
(* key) are sequences of characters.  A submitted code text is the triple  *)
(* of its leading-whitespace length, the length of its core (first to last *)
(* non-whitespace character) and its trailing-whitespace length, plus the  *)
(* facts about it the handlers ask the libraries for.                      *)
(***************************************************************************)
EXTENDS Integers, Sequences, FiniteSets, TLC

\* ---------------------------------------------------------------- bounds
MaxMinute == 1          \* the clock runs over the minutes 0..MaxMinute
MaxReq == 3             \* requests of one client in one minute
MaxThreshold == 2       \* thresholds 1..MaxThreshold are explored
MaxFiles == 1           \* names available in the temporary directory
MaxThreads == 2         \* requests handled at the same time
MaxPad == 2             \* whitespace around a text, characters
MaxFuncs == 2           \* functions of freely chosen complexity in a code

\* ------------------------------------------------------ program constants
RATE_LIMIT_PER_MINUTE == 60
MAX_CODE_LEN == 50000
LINT_TIMEOUT == 30

ClientIps == {<<"a">>, <<"b">>}
Names == 1..MaxFiles
Threads == 1..MaxThreads
Thresholds == (1..MaxThreshold) \cup {RATE_LIMIT_PER_MINUTE}

\* ------------------------------------------------------- the rate limiter
Digit(d) == <<"0", "1", "2", "3", "4", "5", "6", "7", "8", "9">>[d + 1]

\* the label cut at the hour: strftime("%Y-%m-%d %H")
Strftime_hour(t) == <<Digit(((t \div 60) \div 10) % 10), Digit((t \div 60) % 10)>>

\* datetime.now().strftime("%Y-%m-%d %H:%M"): a fixed-width label
Strftime(t) == <<Digit((t \div 10) % 10), Digit(t % 10)>>

\* f"{client_ip}:{current_minute}"
Key(client_ip, current_minute) == client_ip \o <<":">> \o current_minute

\* str.endswith
EndsWith(k, s) ==
    /\ Len(k) >= Len(s)
    /\ SubSeq(k, Len(k) - Len(s) + 1, Len(k)) = s

\* no entry is ever swept
KeysToRemove_none(counts, current_minute) == {}

\* keys_to_remove of lines 78-80
KeysToRemove(counts, current_minute) ==
    {k \in DOMAIN counts : ~EndsWith(k, current_minute)}

\* the sweep limited to the entries of the calling client
CountRequest_own(counts, key, current_minute) ==
    IF key \in DOMAIN counts
    THEN [counts EXCEPT ![key] = @ + 1]
    ELSE LET withKey == [k \in (DOMAIN counts) \cup {key} |->
                            IF k = key THEN 1 ELSE counts[k]]
             n == Len(key) - Len(current_minute)
             own == {k \in DOMAIN withKey :
                        /\ Len(k) >= n
                        /\ SubSeq(k, 1, n) = SubSeq(key, 1, n)}
         IN  [k \in (DOMAIN withKey)
                     \ (KeysToRemove(withKey, current_minute) \cap own)
                 |-> withKey[k]]

\* lines 73-82: the counter update and the eviction
CountRequest(counts, key, current_minute) ==
    IF key \in DOMAIN counts
    THEN [counts EXCEPT ![key] = @ + 1]
    ELSE LET withKey == [k \in (DOMAIN counts) \cup {key} |->
                            IF k = key THEN 1 ELSE counts[k]]
         IN  [k \in (DOMAIN withKey) \ KeysToRemove(withKey, current_minute)
                 |-> withKey[k]]

\* the comparison of line 84 written with >=
Exceeded_ge(counts, key, limit) == counts[key] >= limit

\* line 84
Exceeded(counts, key, limit) == counts[key] > limit

\* ------------------------------------------------------------ code values
\* a text: lead/core/trail lengths; pat: a dangerous pattern occurs in it;
\* comp: what compile() does with it; enc: it can be encoded as UTF-8
Text(lead, core, trail, pat, comp, enc) ==
    [kind |-> "text", truthy |-> (lead + core + trail > 0),
     lead |-> lead, core |-> core, trail |-> trail,
     pat |-> pat, comp |-> comp, enc |-> enc, style |-> "raw"]

\* the same text with its core laid out the way black lays it out
Styled(c) == [c EXCEPT !.style = "black"]

\* a JSON value that is not a string: null, number, list, ...
NonText(kind, truthy) ==
    [kind |-> kind, truthy |-> truthy, lead |-> 0, core |-> 0, trail |-> 0,
     pat |-> FALSE, comp |-> "ok", enc |-> TRUE, style |-> "raw"]

StrLen(c) == c.lead + c.core + c.trail

\* str.strip()
Strip(c) == [c EXCEPT !.lead = 0, !.trail = 0,
                      !.truthy = (c.core > 0)]

MsgRequired == "Code input is required and must be a string"
MsgEmpty == "Code input cannot be empty"
MsgTooLarge == "Code input is too large (max 50KB)"
NoError == "None"

\* the size test of line 111 written with >=
validate_code_input_ge(code) ==
    IF ~code.truthy \/ code.kind # "text" THEN MsgRequired
    ELSE IF StrLen(Strip(code)) = 0 THEN MsgEmpty
    ELSE IF StrLen(code) >= MAX_CODE_LEN THEN MsgTooLarge
    ELSE NoError

\* validate_code_input: the error message, or NoError
validate_code_input(code) ==
    IF ~code.truthy \/ code.kind # "text" THEN MsgRequired
    ELSE IF StrLen(Strip(code)) = 0 THEN MsgEmpty
    ELSE IF StrLen(code) > MAX_CODE_LEN THEN MsgTooLarge
    ELSE NoError

\* the warning of lines 130-134 is logged iff a pattern occurs
LogsDangerous(code) ==
    /\ validate_code_input(code) = NoError
    /\ code.pat

\* --------------------------------------------------------------- handlers
\* what a handler hands back: the HTTP response, the backends it invoked,
\* the temporary directory it leaves, and what became of its artifact
\* payload: the action-specific part of the body (analysis, errors, ...)
NoPayload == [kind |-> "none"]

Out(http, status, message, invoked, dir, artifact) ==
    [http |-> http, status |-> status, message |-> message,
     invoked |-> invoked, dir |-> dir, artifact |-> artifact,
     payload |-> NoPayload]

NoArtifact == "none"

\* handle_syntax_check; a compile() failure other than SyntaxError is not
\* caught here and reaches the caller as "raise"
handle_syntax_check(code, dir) ==
    IF code.comp = "ok"
    THEN Out(200, "success", "Syntax is valid!", {"compile"}, dir, NoArtifact)
    ELSE IF code.comp = "SyntaxError"
    THEN Out(200, "error", "Syntax Error on line", {"compile"}, dir, NoArtifact)
    ELSE Out(0, "raise", code.comp, {"compile"}, dir, NoArtifact)

\* subprocess.run(..., timeout=30) raises TimeoutExpired past the budget
TimedOut(run) == run.elapsed > LINT_TIMEOUT

\* err.replace(temp_file + ":", "Line ") on a line of tokens; "PATH" is the
\* path the linter was given
RECURSIVE ReplacePath(_)
ReplacePath(err) ==
    IF err = <<>> THEN <<>>
    ELSE IF Len(err) >= 2 /\ err[1] = "PATH" /\ err[2] = ":"
    THEN <<"Line ">> \o ReplacePath(SubSeq(err, 3, Len(err)))
    ELSE <<Head(err)>> \o ReplacePath(Tail(err))

\* temp_file in err
Mentions(err) == \E i \in DOMAIN err : err[i] = "PATH"

\* lines 310-313
RECURSIVE LintErrors(_)
LintErrors(raw_errors) ==
    IF raw_errors = <<>> THEN <<>>
    ELSE (IF Mentions(Head(raw_errors))
          THEN <<ReplacePath(Head(raw_errors))>> ELSE <<>>)
            \o LintErrors(Tail(raw_errors))

\* the body parts that carry text from outside: the errors list of line
\* 319 and the str(e) of line 337
LintPayload(errors, failure) ==
    [kind |-> "lint", errors |-> errors, failure |-> failure]

\* str(e) of the exceptions handle_linting catches at line 335
OpenFailed == <<"Permission denied", "PATH">>
WriteFailed == <<"can't encode character">>
SpawnFailed == <<"No such file or directory", "flake8">>

\* the try block of handle_linting after the artifact was written
\* (lines 290-337), before the finally clause
LintRun(run) ==
    IF ~run.spawned
    THEN [http |-> 500, status |-> "error", message |-> "Linting failed: spawn",
          payload |-> LintPayload(<<>>, SpawnFailed)]
    ELSE IF TimedOut(run)
    THEN [http |-> 408, status |-> "error", message |-> "Linting operation timed out",
          payload |-> NoPayload]
    ELSE IF ~run.stdout
    THEN [http |-> 200, status |-> "success", message |-> "No linting issues found!",
          payload |-> NoPayload]
    ELSE [http |-> 200, status |-> "lint_errors", message |-> "Found linting issue(s)",
          payload |-> LintPayload(LintErrors(run.lines), <<>>)]

\* the finally clause (lines 339-344): dir after it, given temp_file
LintFinally(dir, temp_file, unlink_ok) ==
    IF temp_file # 0 /\ temp_file \in dir /\ unlink_ok
    THEN dir \ {temp_file}
    ELSE dir

\* handle_linting
handle_linting(code, env, dir, flake8_installed) ==
    IF ~flake8_installed
    THEN Out(503, "error", "Linting is not available", {}, dir, NoArtifact)
    ELSE IF ~env.create \/ Names \ dir = {}
    THEN \* NamedTemporaryFile raised: nothing was created
         [Out(500, "error", "Linting failed: create", {"tempfile"},
              LintFinally(dir, 0, env.unlink), NoArtifact)
             EXCEPT !.payload = LintPayload(<<>>, OpenFailed)]
    ELSE LET name == CHOOSE n \in Names \ dir : TRUE
             created == dir \cup {name}
         IN  IF ~env.write \/ ~code.enc
             THEN \* tmp.write raised: temp_file is still None
                  LET after == LintFinally(created, 0, env.unlink)
                  IN  [Out(500, "error", "Linting failed: write",
                           {"tempfile"}, after,
                           IF name \in after THEN "exists" ELSE "deleted")
                          EXCEPT !.payload = LintPayload(<<>>, WriteFailed)]
             ELSE LET r == LintRun(env.run)
                      after == LintFinally(created, name, env.unlink)
                  IN  [Out(r.http, r.status, r.message,
                           {"tempfile", "flake8"}, after,
                           IF name \notin after THEN "deleted"
                           ELSE IF env.unlink THEN "exists"
                           ELSE "unlink_failed")
                          EXCEPT !.payload = r.payload]

\* what black does with a text that is not in its style: it raises, or
\* it lays the core out anew, grow characters longer
Fmt(raise, grow) == [raise |-> raise, grow |-> grow]

\* black.format_str (lines 372-375): no leading blank, one final newline;
\* a core already in black's style is left as it is
Black(code, fmt) ==
    IF code.style = "black"
    THEN [code EXCEPT !.lead = 0, !.trail = 1]
    ELSE [code EXCEPT !.lead = 0, !.trail = 1, !.core = @ + fmt.grow,
                      !.style = "black"]

BlackRaises(code, fmt) == code.style # "black" /\ fmt.raise

\* lines 377-401: the body of a successful formatting
Formatted(code, formatted_code, changed, dir) ==
    [Out(200, "success",
         IF changed THEN "Code has been formatted successfully!"
         ELSE "Code is already properly formatted!",
         {"compile", "black"}, dir, NoArtifact)
        EXCEPT !.payload = [kind |-> "format",
                            formatted_code |-> formatted_code,
                            changed |-> changed]]

\* line 377 comparing the texts as they are
handle_formatting_nostrip(code, env, dir, black_installed) ==
    IF ~black_installed
    THEN Out(503, "error", "Formatting is not available", {}, dir, NoArtifact)
    ELSE IF code.comp = "SyntaxError"
    THEN Out(200, "error", "Cannot format due to syntax error",
             {"compile"}, dir, NoArtifact)
    ELSE IF code.comp # "ok"
    THEN Out(500, "error", "Formatting failed: compile",
             {"compile"}, dir, NoArtifact)
    ELSE IF BlackRaises(code, env.format)
    THEN Out(500, "error", "Formatting failed: black",
             {"compile", "black"}, dir, NoArtifact)
    ELSE LET formatted_code == Black(code, env.format)
         IN  Formatted(code, formatted_code, formatted_code # code, dir)

\* handle_formatting
handle_formatting(code, env, dir, black_installed) ==
    IF ~black_installed
    THEN Out(503, "error", "Formatting is not available", {}, dir, NoArtifact)
    ELSE IF code.comp = "SyntaxError"
    THEN Out(200, "error", "Cannot format due to syntax error",
             {"compile"}, dir, NoArtifact)
    ELSE IF code.comp # "ok"
    THEN Out(500, "error", "Formatting failed: compile",
             {"compile"}, dir, NoArtifact)
    ELSE IF BlackRaises(code, env.format)
    THEN Out(500, "error", "Formatting failed: black",
             {"compile", "black"}, dir, NoArtifact)
    ELSE LET formatted_code == Black(code, env.format)
         IN  Formatted(code, formatted_code,
                       Strip(formatted_code) # Strip(code), dir)

\* ------------------------------------------------- complexity analysis
MANY_FUNCTIONS == 10
HIGH_COMPLEXITY == 10
HIGH_TOTAL == 20

\* lines 435-447: the entries of functions, in the order radon reports them
Functions(results) ==
    [i \in DOMAIN results |->
        [name |-> results[i].name, complexity |-> results[i].complexity]]

\* lines 436-447: total_complexity, accumulated along the loop
RECURSIVE TotalComplexity(_)
TotalComplexity(results) ==
    IF results = <<>> THEN 0
    ELSE TotalComplexity(SubSeq(results, 1, Len(results) - 1))
            + results[Len(results)].complexity

\* the bands of lines 451-458 with the first boundary exclusive
Assessment_lt(total_complexity) ==
    IF total_complexity < 10 THEN "Low complexity"
    ELSE IF total_complexity <= 20 THEN "Moderate complexity"
    ELSE IF total_complexity <= 50 THEN "High complexity"
    ELSE "Very high complexity"

\* lines 451-458
Assessment(total_complexity) ==
    IF total_complexity <= 10 THEN "Low complexity"
    ELSE IF total_complexity <= 20 THEN "Moderate complexity"
    ELSE IF total_complexity <= 50 THEN "High complexity"
    ELSE "Very high complexity"

\* the maintainability index: numeric or not, value in thousandths
Mi(numeric, value) == [numeric |-> numeric, value |-> value]

\* line 449
MiScore(metrics_results) ==
    IF metrics_results.numeric THEN metrics_results.value ELSE 0

\* round(x, 2) on thousandths, ties to even
Round2(v) ==
    LET q == v \div 10
        r == v % 10
    IN  10 * (IF r < 5 THEN q
              ELSE IF r > 5 THEN q + 1
              ELSE IF q % 2 = 0 THEN q ELSE q + 1)

\* line 466: na stands for the string "N/A"
MaintainabilityIndex(mi_score) ==
    IF mi_score # 0 THEN [na |-> FALSE, value |-> Round2(mi_score)]
    ELSE [na |-> TRUE, value |-> 0]

\* the names of a sequence of functions, in order
RECURSIVE NamesOf(_)
NamesOf(fs) ==
    IF fs = <<>> THEN <<>> ELSE <<Head(fs).name>> \o NamesOf(Tail(fs))

\* line 496
RECURSIVE HighComplexity(_)
HighComplexity(functions) ==
    IF functions = <<>> THEN <<>>
    ELSE (IF Head(functions).complexity > HIGH_COMPLEXITY
          THEN <<Head(functions)>> ELSE <<>>)
            \o HighComplexity(Tail(functions))

Advice(rule, names) == [rule |-> rule, names |-> names]

\* the rules of lines 491-503 chained with elif
get_complexity_recommendations_elif(total_complexity, functions) ==
    IF total_complexity > HIGH_TOTAL THEN <<Advice("decompose", <<>>)>>
    ELSE IF HighComplexity(functions) # <<>>
    THEN <<Advice("high", NamesOf(HighComplexity(functions)))>>
    ELSE IF Len(functions) > MANY_FUNCTIONS
    THEN <<Advice("modularize", <<>>)>>
    ELSE <<Advice("good", <<>>)>>

\* get_complexity_recommendations, lines 487-508
get_complexity_recommendations(total_complexity, functions) ==
    LET r1 == IF total_complexity > HIGH_TOTAL
              THEN <<Advice("decompose", <<>>)>> ELSE <<>>
        r2 == IF HighComplexity(functions) # <<>>
              THEN r1 \o <<Advice("high", NamesOf(HighComplexity(functions)))>>
              ELSE r1
        r3 == IF Len(functions) > MANY_FUNCTIONS
              THEN r2 \o <<Advice("modularize", <<>>)>> ELSE r2
    IN  IF r3 = <<>> THEN <<Advice("good", <<>>)>> ELSE r3

\* lines 460-478: the analysis part of the body
Analysis(results, metrics_results) ==
    [kind |-> "analysis",
     total_complexity |-> TotalComplexity(results),
     maintainability_index |-> MaintainabilityIndex(MiScore(metrics_results)),
     functions |-> Functions(results),
     assessment |-> Assessment(TotalComplexity(results)),
     recommendations |->
         get_complexity_recommendations(TotalComplexity(results),
                                        Functions(results))]

\* handle_complexity_analysis
handle_complexity_analysis(code, env, dir, radon_installed) ==
    IF ~radon_installed
    THEN Out(503, "error", "Complexity analysis is not available",
             {}, dir, NoArtifact)
    ELSE IF code.comp = "SyntaxError"
    THEN Out(200, "error", "Cannot analyze complexity due to syntax error",
             {"compile"}, dir, NoArtifact)
    ELSE IF code.comp # "ok"
    THEN Out(500, "error", "Complexity analysis failed: compile",
             {"compile"}, dir, NoArtifact)
    ELSE IF env.radon.raise
    THEN Out(500, "error", "Complexity analysis failed: radon",
             {"compile", "radon"}, dir, NoArtifact)
    ELSE [Out(200, "success", "Complexity analysis completed!",
              {"compile", "radon"}, dir, NoArtifact)
             EXCEPT !.payload = Analysis(env.radon.results, env.radon.mi)]

\* ------------------------------------------------------------- dispatcher
Actions == {"check", "lint", "format", "complexity"}

\* data.get("code", "") and data.get("action", "check")
GetCode(data) == IF data.hasCode THEN data.code ELSE Text(0, 0, 0, FALSE, "ok", TRUE)
GetAction(data) == IF data.hasAction THEN data.action ELSE "check"

\* lines 222-229
Dispatch(action, code, env, dir, inst) ==
    IF action = "check" THEN handle_syntax_check(code, dir)
    ELSE IF action = "lint" THEN handle_linting(code, env, dir, inst.flake8)
    ELSE IF action = "format" THEN handle_formatting(code, env, dir, inst.black)
    ELSE handle_complexity_analysis(code, env, dir, inst.radon)

\* a response built by process_code itself, no handler called
Early(http, message, dir) ==
    [stages |-> <<"Validated", "Normalized", "Responded">>]
        @@ Out(http, "error", message, {}, dir, NoArtifact)

\* lines 231-241: the except clause of process_code
Unexpected(invoked, dir, stages) ==
    [stages |-> stages \o <<"Normalized", "Responded">>]
        @@ Out(500, "error", "An unexpected error occurred", invoked, dir,
               NoArtifact)

\* the action check of lines 209-218 placed before the validation
ValidateAndDispatch_action_first(code, action, env, dir, inst) ==
    IF action \notin Actions
    THEN Early(400, "Invalid action", dir)
    ELSE IF validate_code_input(code) # NoError
    THEN Early(400, validate_code_input(code), dir)
    ELSE LET o == Dispatch(action, code, env, dir, inst)
         IN  IF o.status = "raise"
             THEN Unexpected(o.invoked, o.dir, <<"Validated", "Dispatched">>)
             ELSE [stages |-> <<"Validated", "Dispatched", "Normalized",
                                "Responded">>] @@ o

\* the handler called before the two checks of lines 205-218
ValidateAndDispatch_eager(code, action, env, dir, inst) ==
    LET o == Dispatch(action, code, env, dir, inst)
    IN  IF validate_code_input(code) # NoError
        THEN [Early(400, validate_code_input(code), o.dir)
                 EXCEPT !.invoked = o.invoked, !.artifact = o.artifact]
        ELSE IF action \notin Actions
        THEN [Early(400, "Invalid action", o.dir)
                 EXCEPT !.invoked = o.invoked, !.artifact = o.artifact]
        ELSE IF o.status = "raise"
        THEN Unexpected(o.invoked, o.dir, <<"Validated", "Dispatched">>)
        ELSE [stages |-> <<"Validated", "Dispatched", "Normalized",
                           "Responded">>] @@ o

\* lines 204-229: validation, the action check, then the handler
ValidateAndDispatch(code, action, env, dir, inst) ==
    IF validate_code_input(code) # NoError
    THEN Early(400, validate_code_input(code), dir)
    ELSE IF action \notin Actions
    THEN Early(400, "Invalid action", dir)
    ELSE LET o == Dispatch(action, code, env, dir, inst)
         IN  IF o.status = "raise"
             THEN Unexpected(o.invoked, o.dir, <<"Validated", "Dispatched">>)
             ELSE [stages |-> <<"Validated", "Dispatched", "Normalized",
                                "Responded">>] @@ o

\* process_code, lines 193-241
process_code(body, env, dir, inst) ==
    IF ~body.is_json
    THEN Early(400, "Request must be JSON", dir)
    ELSE IF ~body.parses
    THEN \* get_json() raises BadRequest, an Exception
         Unexpected({}, dir, <<"Validated">>)
    ELSE IF ~body.truthy
    THEN Early(400, "Invalid JSON data", dir)
    ELSE IF body.type # "object"
    THEN \* data.get raises AttributeError
         Unexpected({}, dir, <<"Validated">>)
    ELSE ValidateAndDispatch(GetCode(body), GetAction(body), env, dir, inst)

\* lines 84-94: the 429 answer of the decorator
TooMany(dir) ==
    [stages |-> <<"Normalized", "Responded">>]
        @@ Out(429, "error", "Rate limit exceeded", {}, dir, NoArtifact)

\* the limiter consulted only for requests that passed the 400 checks
decorated_function_validate_first(counts, limit, client_ip, t, body, env, dir, inst) ==
    LET current_minute == Strftime(t)
        key == Key(client_ip, current_minute)
        counted == CountRequest(counts, key, current_minute)
        p == process_code(body, env, dir, inst)
    IN  IF p.http = 400
        THEN [counts |-> counts,
              resp |-> [p EXCEPT !.stages = <<"Received">> \o @]]
        ELSE IF Exceeded(counted, key, limit)
        THEN [counts |-> counted,
              resp |-> [TooMany(dir) EXCEPT !.stages =
                           <<"Received", "Validated", "RateChecked">> \o @]]
        ELSE [counts |-> counted,
              resp |-> [p EXCEPT !.stages =
                           <<"Received", "Validated", "RateChecked">>
                               \o Tail(@)]]

\* a rejected request leaves the counter as it was
decorated_function_capped(counts, limit, client_ip, t, body, env, dir, inst) ==
    LET current_minute == Strftime(t)
        key == Key(client_ip, current_minute)
        counted == CountRequest(counts, key, current_minute)
        over == Exceeded(counted, key, limit)
        r == IF over THEN TooMany(dir) ELSE process_code(body, env, dir, inst)
    IN  [counts |-> IF over THEN counts ELSE counted,
         resp |-> [r EXCEPT !.stages = <<"Received", "RateChecked">> \o @]]

\* rate_limit.decorated_function, lines 68-96: the new map and the response
decorated_function(counts, limit, client_ip, t, body, env, dir, inst) ==
    LET current_minute == Strftime(t)
        key == Key(client_ip, current_minute)
        counted == CountRequest(counts, key, current_minute)
        r == IF Exceeded(counted, key, limit)
             THEN TooMany(dir)
             ELSE process_code(body, env, dir, inst)
    IN  [counts |-> counted,
         resp |-> [r EXCEPT !.stages = <<"Received", "RateChecked">> \o @]]

\* ------------------------------------------------------------------ state
VARIABLES
    request_counts,  \* the module-level dict of line 60: key -> count
    now,             \* the minute the wall clock shows
    max_requests,    \* the threshold the decorator was built with
    installed,       \* which of flake8, black, radon were importable
    tmpdir,          \* names of the files in the temporary directory
    req,             \* the request handled last
    resp,            \* its response, with the stages it went through
    sent,            \* client -> requests received in the current minute
    saturated,       \* clients that were rejected in the minute before
    debug,           \* Config.DEBUG, from the environment at start
    th               \* thread -> where it is in decorated_function

vars == <<request_counts, now, max_requests, installed, tmpdir, req, resp,
          sent, saturated, debug, th>>

\* ----------------------------------------------------------------- inputs
EmptyText == Text(0, 0, 0, FALSE, "ok", TRUE)
cWs == Text(2, 0, 0, FALSE, "ok", TRUE)
cOk == Text(0, 5, 0, FALSE, "ok", TRUE)
cPat == Text(1, 9, 1, TRUE, "ok", TRUE)
cSyn == Text(0, 5, 0, FALSE, "SyntaxError", TRUE)
cNul == Text(0, 5, 0, FALSE, "ValueError", TRUE)
cSurrogate == Text(0, 1, 0, FALSE, "ValueError", FALSE)
cMax == Text(0, MAX_CODE_LEN, 0, FALSE, "ok", TRUE)
cOver == Text(0, MAX_CODE_LEN + 1, 0, FALSE, "ok", TRUE)
cOverWs == Text(MAX_CODE_LEN + 1, 0, 0, FALSE, "ok", TRUE)
cBlack == Styled(Text(1, 5, 0, FALSE, "ok", TRUE))

Codes == {EmptyText, cWs, cOk, cPat, cSyn, cNul, cSurrogate, cMax, cOver,
          cOverWs, cBlack, NonText("null", FALSE), NonText("number", TRUE)}

Body(is_json, parses, type, truthy, hasCode, code, hasAction, action) ==
    [is_json |-> is_json, parses |-> parses, type |-> type,
     truthy |-> truthy, hasCode |-> hasCode, code |-> code,
     hasAction |-> hasAction, action |-> action]

\* a JSON object; other: it has a key besides code and action
Object(hasCode, code, hasAction, action, other) ==
    Body(TRUE, TRUE, "object", hasCode \/ hasAction \/ other,
         hasCode, code, hasAction, action)

NotObject(is_json, parses, type, truthy) ==
    Body(is_json, parses, type, truthy, FALSE, EmptyText, FALSE, "check")

NotJson == NotObject(FALSE, FALSE, "none", FALSE)
BadJson == NotObject(TRUE, FALSE, "none", FALSE)

Malformed ==
    {NotJson, BadJson}
        \cup {NotObject(TRUE, TRUE, t, b) :
                t \in {"array", "string", "number"}, b \in BOOLEAN}
        \cup {NotObject(TRUE, TRUE, "null", FALSE)}
        \cup {Object(FALSE, EmptyText, FALSE, "check", b) : b \in BOOLEAN}
        \cup {Object(FALSE, EmptyText, TRUE, a, FALSE) :
                a \in {"lint", "unsupported"}}

Objects ==
    {Object(TRUE, c, TRUE, a, FALSE) :
        c \in Codes, a \in Actions \cup {"unsupported"}}
        \cup {Object(TRUE, c, FALSE, "check", FALSE) : c \in Codes}

Bodies == Malformed \cup Objects

\* a line of flake8: path:row:col: code text
UsualLine == <<"PATH", ":", "1:1: E225">>

\* stdout: result.stdout.strip() is not empty; lines: its lines
Run(spawned, elapsed, rc, stdout) ==
    [spawned |-> spawned, elapsed |-> elapsed, rc |-> rc, stdout |-> stdout,
     lines |-> IF stdout THEN <<UsualLine>> ELSE <<>>]

\* a run that ended with these lines on stdout
RunLines(lines) == [Run(TRUE, 1, 1, TRUE) EXCEPT !.lines = lines]

RunClean == Run(TRUE, 1, 0, FALSE)
Runs == {RunClean,
         Run(TRUE, LINT_TIMEOUT, 1, TRUE),       \* findings, just in time
         Run(TRUE, 1, 1, FALSE),                 \* failed, nothing on stdout
         Run(TRUE, LINT_TIMEOUT + 1, 0, FALSE),  \* over the budget
         Run(FALSE, 0, 0, FALSE),                \* could not be started
         \* a line without the path among the usual ones
         RunLines(<<UsualLine, <<"warning">>, UsualLine>>),
         \* the path inside the text of the diagnostic
         RunLines(<<<<"PATH", ":", "0:1: E902", "PATH">>>>),
         \* the path not followed by a colon
         RunLines(<<<<"PATH", " 1:1: E225">>>>)}

Env(create, write, unlink, run, format, radon) ==
    [create |-> create, write |-> write, unlink |-> unlink, run |-> run,
     format |-> format, radon |-> radon]

\* what radon hands back: cc_visit's blocks and mi_visit's value
Radon(raise, complexities, mi) ==
    [raise |-> raise,
     results |-> [i \in DOMAIN complexities |->
                     [name |-> i, complexity |-> complexities[i]]],
     mi |-> mi]

RadonOk == Radon(FALSE, <<1>>, Mi(TRUE, 75500))
RadonRaise == Radon(TRUE, <<>>, Mi(FALSE, 0))

Nominal == Env(TRUE, TRUE, TRUE, RunClean, Fmt(FALSE, 0), RadonOk)

LintEnvs ==
    {Env(TRUE, TRUE, u, r, Fmt(FALSE, 0), RadonOk) : u \in BOOLEAN, r \in Runs}
        \cup {Env(FALSE, TRUE, TRUE, RunClean, Fmt(FALSE, 0), RadonOk),
              Env(TRUE, FALSE, TRUE, RunClean, Fmt(FALSE, 0), RadonOk)}

\* what the libraries and the system do is drawn only where it is looked at
Envs(body) ==
    IF ~(body.type = "object" /\ body.hasCode /\ body.hasAction
         /\ validate_code_input(body.code) = NoError)
    THEN {Nominal}
    ELSE IF body.action = "lint" THEN LintEnvs
    ELSE IF body.action = "format"
    THEN {[Nominal EXCEPT !.format = f] :
             f \in {Fmt(FALSE, 0), Fmt(FALSE, 3), Fmt(TRUE, 0)}}
    ELSE IF body.action = "complexity"
    THEN {[Nominal EXCEPT !.radon = f] : f \in {RadonOk, RadonRaise}}
    ELSE {Nominal}

Installed == [flake8 : BOOLEAN, black : BOOLEAN, radon : BOOLEAN]

NoResp == [stages |-> <<>>] @@ Out(0, "none", "none", {}, {}, NoArtifact)
\* minute: the minute it arrived in; k: it was the k-th of its client then
Req(client_ip, body, env, minute, k) ==
    [client |-> client_ip, body |-> body, env |-> env, minute |-> minute,
     k |-> k]
NoReq == Req(<<>>, NotJson, Nominal, 0, 0)

\* a thread of the server: pc is the line of decorated_function it is at
Thread(pc, client_ip, minute, tmp, size, remove) ==
    [pc |-> pc, client |-> client_ip, minute |-> minute, tmp |-> tmp,
     size |-> size, remove |-> remove]
Idle == Thread("idle", <<>>, <<>>, 0, 0, {})

\* ---------------------------------------------------------------- actions
Init ==
    /\ request_counts = <<>>
    /\ now = 0
    /\ max_requests \in Thresholds
    /\ installed \in Installed
    /\ tmpdir = {}
    /\ req = NoReq
    /\ resp = NoResp
    /\ sent = [c \in ClientIps |-> 0]
    /\ saturated = {}
    /\ debug = FALSE
    /\ th = [t \in Threads |-> Idle]

\* one POST /process_code, handled from arrival to response
Request(client_ip, body, env) ==
    /\ sent[client_ip] < MaxReq
    /\ LET r == decorated_function(request_counts, max_requests, client_ip,
                                   now, body, env, tmpdir, installed)
       IN  /\ request_counts' = r.counts
           /\ resp' = r.resp
           /\ tmpdir' = r.resp.dir
    /\ req' = Req(client_ip, body, env, now, sent[client_ip] + 1)
    /\ sent' = [sent EXCEPT ![client_ip] = @ + 1]
    /\ UNCHANGED <<now, max_requests, installed, saturated, debug, th>>

\* the wall clock reaches the next minute
Tick ==
    /\ now < MaxMinute
    /\ now' = now + 1
    /\ saturated' = {c \in ClientIps : sent[c] > max_requests}
    /\ sent' = [c \in ClientIps |-> 0]
    /\ UNCHANGED <<request_counts, max_requests, installed, tmpdir, req,
                   resp, debug, th>>

\* the bodies that reach each exit of process_code once
CoreBodies ==
    {NotJson,
     NotObject(TRUE, TRUE, "array", TRUE),
     Object(TRUE, EmptyText, TRUE, "check", FALSE),
     Object(TRUE, cOver, TRUE, "lint", FALSE),
     Object(TRUE, cOk, TRUE, "unsupported", FALSE)}
        \cup {Object(TRUE, cOk, TRUE, a, FALSE) : a \in Actions}

\* a backend that fails: radon raising in a complexity request
Failing == [Nominal EXCEPT !.radon = RadonRaise]

\* several clients over several minutes, the libraries behaving or failing
Next ==
    \/ \E c \in ClientIps, b \in CoreBodies : Request(c, b, Nominal)
    \/ \E c \in ClientIps :
          Request(c, Object(TRUE, cOk, TRUE, "complexity", FALSE), Failing)
    \/ Tick

Spec == Init /\ [][Next]_vars

\* one client under the configured threshold, every body and every
\* behaviour of the libraries and the file system
InitPipeline ==
    /\ Init
    /\ max_requests = RATE_LIMIT_PER_MINUTE

NextPipeline ==
    \E b \in Bodies : \E e \in Envs(b) : Request(<<"a">>, b, e)

SpecPipeline == InitPipeline /\ [][NextPipeline]_vars

\* ------------------------------------------- validate_code_input by itself
\* texts around the size limit, with and without surrounding whitespace
CoreLens == {0, 1, 5} \cup ((MAX_CODE_LEN - MaxPad - 1)..(MAX_CODE_LEN + 1))

ValCodes ==
    {Text(l, c, t, p, "ok", TRUE) :
        l \in 0..MaxPad, c \in CoreLens \ {0}, t \in 0..MaxPad,
        p \in BOOLEAN}
        \cup {Text(l, 0, 0, FALSE, "ok", TRUE) :
                l \in (0..MaxPad) \cup {MAX_CODE_LEN, MAX_CODE_LEN + 1}}
        \cup {NonText(k, b) : k \in {"null", "number", "list"}, b \in BOOLEAN}

InitValidate ==
    /\ request_counts = <<>>
    /\ now = 0
    /\ max_requests = RATE_LIMIT_PER_MINUTE
    /\ installed = [flake8 |-> TRUE, black |-> TRUE, radon |-> TRUE]
    /\ tmpdir = {}
    /\ resp = NoResp
    /\ sent = [c \in ClientIps |-> 0]
    /\ saturated = {}
    /\ debug = FALSE
    /\ th = [t \in Threads |-> Idle]
    /\ \E c \in ValCodes, h \in BOOLEAN :
          /\ (c.pat => c.core >= 5)
          /\ (~h => c = EmptyText)
          /\ req = Req(<<"a">>, Object(h, c, FALSE, "check", FALSE),
                       Nominal, 0, 0)

\* lines 201 and 205 of process_code on the body of req
Validate ==
    /\ resp = NoResp
    /\ resp' = [NoResp EXCEPT !.status = "validated",
                              !.message =
                                  validate_code_input(GetCode(req.body))]
    /\ UNCHANGED <<request_counts, now, max_requests, installed, tmpdir, req,
                   sent, saturated, debug, th>>

NextValidate == Validate

SpecValidate == InitValidate /\ [][NextValidate]_vars

\* ------------------------------------ handle_complexity_analysis by itself
\* scores whose sums of at most MaxFuncs reach both sides of each band
Scores == {1, 9, 10, 11, 20, 40, 41}

ScoreSeqs == UNION {[1..n -> Scores] : n \in 0..MaxFuncs}

\* n functions of complexity 1 in front of the chosen ones
Padded(n, cs) == [i \in 1..n |-> 1] \o cs

MiValues == {Mi(TRUE, 0), Mi(TRUE, 4), Mi(TRUE, 57123), Mi(TRUE, 57125),
             Mi(TRUE, 100000), Mi(FALSE, 0)}

RadonResults ==
    {Radon(FALSE, Padded(n, cs), mi) :
        n \in {0, MANY_FUNCTIONS - 1}, cs \in ScoreSeqs, mi \in MiValues}

\* totals handed to get_complexity_recommendations apart from the sum
TotalsTried == {0, HIGH_TOTAL, HIGH_TOTAL + 1}

InitComplexity ==
    /\ request_counts = <<>>
    /\ now = 0
    /\ max_requests = RATE_LIMIT_PER_MINUTE
    /\ installed = [flake8 |-> TRUE, black |-> TRUE, radon |-> TRUE]
    /\ tmpdir = {}
    /\ resp = NoResp
    /\ sent = [c \in ClientIps |-> 0]
    /\ saturated = {}
    /\ debug = FALSE
    /\ th = [t \in Threads |-> Idle]
    /\ \E r \in RadonResults :
          req = Req(<<"a">>, Object(TRUE, cOk, TRUE, "complexity", FALSE),
                    [Nominal EXCEPT !.radon = r], 0, 0)

PureFrame == UNCHANGED <<request_counts, now, max_requests, installed, tmpdir,
                         req, sent, saturated, debug, th>>

\* process_code on the complexity request of req
Analyze ==
    /\ resp = NoResp
    /\ resp' = process_code(req.body, req.env, tmpdir, installed)
    /\ PureFrame

\* get_complexity_recommendations on the functions of req and a total
Recommend(total_complexity) ==
    /\ resp = NoResp
    /\ resp' = [NoResp EXCEPT
                  !.status = "recommended",
                  !.payload =
                      [kind |-> "recommendations",
                       total_complexity |-> total_complexity,
                       recommendations |->
                           get_complexity_recommendations(
                               total_complexity,
                               Functions(req.env.radon.results))]]
    /\ PureFrame

NextComplexity ==
    \/ Analyze
    \/ \E t \in TotalsTried : Recommend(t)

SpecComplexity == InitComplexity /\ [][NextComplexity]_vars

\* ------------------------------------------- two format requests in a row
\* parsable texts, short and near the size limit, raw and in black's style
FormatCodes ==
    {[Text(l, c, t, FALSE, "ok", TRUE) EXCEPT !.style = st] :
        l \in 0..1, t \in 0..MaxPad, st \in {"raw", "black"},
        c \in {5} \cup ((MAX_CODE_LEN - MaxPad - 1)..MAX_CODE_LEN)}

Fmts == {Fmt(TRUE, 0)} \cup {Fmt(FALSE, g) : g \in {-1, 0, 1, MaxPad + 1}}

FormatRequest(code) == Object(TRUE, code, TRUE, "format", FALSE)

\* a first format request
FirstFormat(code, fmt) ==
    /\ resp = NoResp
    /\ Request(<<"a">>, FormatRequest(code), [Nominal EXCEPT !.format = fmt])

\* the formatted_code of the first response submitted again
SecondFormat(fmt) ==
    /\ req.k = 1
    /\ resp.payload.kind = "format"
    /\ Request(<<"a">>, FormatRequest(resp.payload.formatted_code),
               [Nominal EXCEPT !.format = fmt])

InitFormat ==
    /\ Init
    /\ max_requests = RATE_LIMIT_PER_MINUTE
    /\ installed = [flake8 |-> TRUE, black |-> TRUE, radon |-> TRUE]

NextFormat ==
    \/ \E c \in FormatCodes, f \in Fmts :
          validate_code_input(c) = NoError /\ FirstFormat(c, f)
    \/ \E f \in Fmts : SecondFormat(f)

SpecFormat == InitFormat /\ [][NextFormat]_vars

\* ---------------------------------- decorated_function, line by line
\* request_counts[key] = v
Store(counts, k, v) ==
    [x \in (DOMAIN counts) \cup {k} |-> IF x = k THEN v ELSE counts[x]]

\* del request_counts[k]
Del(counts, k) == [x \in (DOMAIN counts) \ {k} |-> counts[x]]

ThreadKey(t) == Key(th[t].client, th[t].minute)

At(t, pc) == th[t].pc = pc
Goto(t, pc) == th' = [th EXCEPT ![t].pc = pc]

ConcFrame == UNCHANGED <<now, max_requests, installed, tmpdir, req, resp,
                         sent, saturated, debug>>

\* lines 69-71
Start(t, client_ip) ==
    /\ At(t, "idle")
    /\ th' = [th EXCEPT ![t] = Thread("L73", client_ip, Strftime(now), 0, 0, {})]
    /\ UNCHANGED request_counts /\ ConcFrame

\* line 73
TestKey(t) ==
    /\ At(t, "L73")
    /\ Goto(t, IF ThreadKey(t) \in DOMAIN request_counts THEN "L74r" ELSE "L76")
    /\ UNCHANGED request_counts /\ ConcFrame

\* line 74, the load of request_counts[key]: KeyError if it is gone
ReadCount(t) ==
    /\ At(t, "L74r")
    /\ IF ThreadKey(t) \in DOMAIN request_counts
       THEN th' = [th EXCEPT ![t].pc = "L74w",
                             ![t].tmp = request_counts[ThreadKey(t)]]
       ELSE Goto(t, "raised")
    /\ UNCHANGED request_counts /\ ConcFrame

\* line 74, the store of the incremented value
WriteCount(t) ==
    /\ At(t, "L74w")
    /\ request_counts' = Store(request_counts, ThreadKey(t), th[t].tmp + 1)
    /\ Goto(t, "L84")
    /\ ConcFrame

\* line 76
Create(t) ==
    /\ At(t, "L76")
    /\ request_counts' = Store(request_counts, ThreadKey(t), 1)
    /\ Goto(t, "L78")
    /\ ConcFrame

\* lines 78-80, the iterator over request_counts.keys() is created
IterBegin(t) ==
    /\ At(t, "L78")
    /\ th' = [th EXCEPT ![t].pc = "L79",
                        ![t].size = Cardinality(DOMAIN request_counts)]
    /\ UNCHANGED request_counts /\ ConcFrame

\* lines 78-80, the iteration ends: RuntimeError if the dict changed size
IterEnd(t) ==
    /\ At(t, "L79")
    /\ IF Cardinality(DOMAIN request_counts) # th[t].size
       THEN Goto(t, "raised")
       ELSE LET r == KeysToRemove(request_counts, th[t].minute)
            IN  th' = [th EXCEPT ![t].pc = IF r = {} THEN "L84" ELSE "L82",
                                 ![t].remove = r]
    /\ UNCHANGED request_counts /\ ConcFrame

\* lines 81-82, one del: KeyError if another request removed the key
Delete(t) ==
    /\ At(t, "L82")
    /\ \E k \in th[t].remove :
          IF k \in DOMAIN request_counts
          THEN /\ request_counts' = Del(request_counts, k)
               /\ th' = [th EXCEPT ![t].remove = @ \ {k},
                                   ![t].pc = IF th[t].remove = {k}
                                             THEN "L84" ELSE "L82"]
          ELSE /\ Goto(t, "raised")
               /\ UNCHANGED request_counts
    /\ ConcFrame

\* line 84, the threshold read: KeyError if the key was evicted
Check(t) ==
    /\ At(t, "L84")
    /\ Goto(t, IF ThreadKey(t) \in DOMAIN request_counts
               THEN "done" ELSE "raised")
    /\ UNCHANGED request_counts /\ ConcFrame

\* an exception that leaves decorated_function reaches the application:
\* with DEBUG (lines 42, 46, 513) it is re-raised to the server, otherwise
\* internal_server_error (lines 151-163) answers the 500 envelope
HandleException(dbg) == IF dbg THEN "propagated" ELSE "answered500"

ErrorHandler(t) ==
    /\ At(t, "raised")
    /\ Goto(t, HandleException(debug))
    /\ UNCHANGED request_counts /\ ConcFrame

InitConc ==
    /\ request_counts = <<>>
    /\ now = 0
    /\ max_requests = RATE_LIMIT_PER_MINUTE
    /\ installed = [flake8 |-> TRUE, black |-> TRUE, radon |-> TRUE]
    /\ tmpdir = {}
    /\ req = NoReq
    /\ resp = NoResp
    /\ sent = [c \in ClientIps |-> 0]
    /\ saturated = {}
    /\ debug \in BOOLEAN
    /\ th = [t \in Threads |-> Idle]

NextConc ==
    \/ \E t \in Threads, c \in ClientIps : Start(t, c)
    \/ \E t \in Threads : TestKey(t)
    \/ \E t \in Threads : ReadCount(t)
    \/ \E t \in Threads : WriteCount(t)
    \/ \E t \in Threads : Create(t)
    \/ \E t \in Threads : IterBegin(t)
    \/ \E t \in Threads : IterEnd(t)
    \/ \E t \in Threads : Delete(t)
    \/ \E t \in Threads : Check(t)
    \/ \E t \in Threads : ErrorHandler(t)
    \/ Tick

SpecConc == InitConc /\ [][NextConc]_vars

\* ================================================================= claims
Answered == resp.http # 0
IsObject(b) == b.is_json /\ b.parses /\ b.type = "object"

\* C1: with threshold N, the k-th request of a client in one minute passes
\* the rate limiter iff k <= N; a request past the threshold is answered
\* 429 and the wrapped handler is not run.
C1_KthPassesIffWithinThreshold ==
    Answered =>
        /\ (resp.http # 429) <=> (req.k <= max_requests)
        /\ resp.http = 429 =>
              /\ "Validated" \notin {resp.stages[i] : i \in DOMAIN resp.stages}
              /\ resp.invoked = {}

C1_Witness ==
    /\ req.k = max_requests + 1
    /\ resp.http = 429
    /\ request_counts[Key(req.client, Strftime(req.minute))] = req.k

\* C2: whatever happened before (the client rejected in the minute before,
\* other clients active), the first request of a client in a new minute is
\* admitted.
C2_FirstInNewBucketAdmitted ==
    (Answered /\ req.k = 1) => resp.http # 429

C2_Witness ==
    /\ req.k = 1
    /\ req.minute = now
    /\ now > 0
    /\ req.client \in saturated
    /\ resp.http # 429
    /\ \E c \in ClientIps \ {req.client} : sent[c] > 0

StageSet == {resp.stages[i] : i \in DOMAIN resp.stages}

\* the stages of resp occur in the order of the sequence order
InOrder(order) ==
    \A i, j \in DOMAIN resp.stages :
        i < j => \E m, n \in DOMAIN order :
                    /\ m < n
                    /\ order[m] = resp.stages[i]
                    /\ order[n] = resp.stages[j]

\* C6 as stated: validation and the action check run before the rate
\* limiter, so a 400 leaves before the limiter is consulted and 429 goes
\* only to requests that passed validation.
C6_Original ==
    Answered =>
        /\ InOrder(<<"Received", "Validated", "RateChecked", "Dispatched",
                     "Normalized", "Responded">>)
        /\ resp.http = 400 => "RateChecked" \notin StageSet
        /\ resp.http = 429 => "Validated" \in StageSet

\* C6 amended: the rate limiter runs first: the order is Received,
\* RateChecked, Validated, Dispatched, Normalized, Responded; a request
\* over the threshold leaves at RateChecked with 429 whether or not its
\* body is valid, and 400 is only returned to requests the limiter admitted.
C6_RateCheckBeforeValidation ==
    Answered =>
        /\ InOrder(<<"Received", "RateChecked", "Validated", "Dispatched",
                     "Normalized", "Responded">>)
        /\ SubSeq(resp.stages, 1, 2) = <<"Received", "RateChecked">>
        /\ resp.http = 429 => "Validated" \notin StageSet
        /\ resp.http = 400 =>
              /\ req.k <= max_requests
              /\ "Validated" \in StageSet

C6_Witness ==
    /\ resp.http = 429
    /\ IsObject(req.body)
    /\ validate_code_input(GetCode(req.body)) # NoError

\* C10: a request answered 400 or 429 had no analysis backend invoked: no
\* compile, no temporary artifact, no linter process, no formatter, no
\* complexity call.
C10_NoBackendOnRejection ==
    (Answered /\ resp.http \in {400, 429}) =>
        /\ resp.invoked = {}
        /\ resp.artifact = NoArtifact
        /\ "Dispatched" \notin StageSet

C10_Witness ==
    /\ resp.http = 400
    /\ IsObject(req.body)
    /\ validate_code_input(GetCode(req.body)) = NoError
    /\ GetAction(req.body) \notin Actions
    /\ resp.invoked = {}

\* --------------------------------------------------------------- pipeline
Admitted == Answered /\ resp.http # 429
ValidObject ==
    /\ IsObject(req.body)
    /\ validate_code_input(GetCode(req.body)) = NoError
\* a lint request that got past the availability check of line 271
LintPastCheck ==
    /\ Admitted
    /\ ValidObject
    /\ GetAction(req.body) = "lint"
    /\ installed.flake8

\* C4: in a lint request past the availability check, the temporary
\* artifact no longer exists once the request has responded, on every exit
\* path, a failed delete excepted.
C4_ArtifactGoneOnEveryExit ==
    LintPastCheck => resp.artifact \in {NoArtifact, "deleted", "unlink_failed"}

\* C5: the lint outcome follows the backend outcome: not installed -> 503
\* with status=error; over the 30 s budget -> 408; not started, or ended in
\* failure with no diagnostics -> 500; success only when the process ran to
\* completion and reported nothing.
C5_LintOutcomeFollowsBackend ==
    (Admitted /\ ValidObject /\ GetAction(req.body) = "lint") =>
        /\ ~installed.flake8 => (resp.http = 503 /\ resp.status = "error")
        /\ (installed.flake8 /\ "flake8" \in resp.invoked) =>
              LET run == req.env.run
              IN  /\ (run.spawned /\ TimedOut(run)) => resp.http = 408
                  /\ ~run.spawned => resp.http = 500
                  /\ (run.spawned /\ ~TimedOut(run) /\ run.rc # 0
                        /\ ~run.stdout) => resp.http = 500
                  /\ resp.status = "success" =>
                        (run.spawned /\ ~TimedOut(run) /\ run.rc = 0
                           /\ ~run.stdout)

\* C7: a malformed request (not JSON, JSON that is not an object, an object
\* without the code key), an action outside the four, or a code that fails
\* validation is answered 400 with status=error, never 500.
C7_MalformedIs400 ==
    (Admitted /\ (\/ ~IsObject(req.body)
                  \/ ~req.body.hasCode
                  \/ validate_code_input(GetCode(req.body)) # NoError
                  \/ GetAction(req.body) \notin Actions)) =>
        (resp.http = 400 /\ resp.status = "error")

Oversize ==
    /\ Admitted
    /\ IsObject(req.body)
    /\ req.body.hasCode
    /\ req.body.code.kind = "text"
    /\ StrLen(req.body.code) > MAX_CODE_LEN

\* C9 as stated: every code longer than 50,000 characters fails with 400
\* and the oversize message, whatever the action.
C9_Original ==
    Oversize => (resp.http = 400 /\ resp.message = MsgTooLarge)

\* C9 amended: every code longer than 50,000 characters fails with 400
\* whatever the action (recognized, absent or unrecognized), and the action
\* check never pre-empts the validation message; the message is the
\* oversize one when the code has a non-whitespace character and the
\* empty-input one when it is whitespace only.
C9_OversizeRegardlessOfAction ==
    Oversize =>
        /\ resp.http = 400
        /\ resp.message = IF req.body.code.core > 0 THEN MsgTooLarge
                          ELSE MsgEmpty

C9_Witness ==
    /\ Oversize
    /\ req.body.hasAction
    /\ req.body.action = "unsupported"
    /\ resp.message = MsgTooLarge

\* ------------------------------------------------------------- validation
\* the cases the contract lists: absent, not text, empty after trimming,
\* longer than the limit
ListedInvalid(b) ==
    \/ ~b.hasCode
    \/ b.code.kind # "text"
    \/ b.code.core = 0
    \/ b.code.lead + b.code.core + b.code.trail > MAX_CODE_LEN

\* C8: validate returns Invalid exactly for a code that is absent, not
\* text, empty after trimming, or longer than 50,000 characters; a match of
\* a sensitive pattern never changes the outcome.
C8_InvalidExactlyWhenListed ==
    resp.status = "validated" =>
        ((resp.message # NoError) <=> ListedInvalid(req.body))

C8_Witness ==
    /\ resp.status = "validated"
    /\ req.body.hasCode
    /\ StrLen(req.body.code) = MAX_CODE_LEN
    /\ req.body.code.pat
    /\ LogsDangerous(req.body.code)
    /\ resp.message = NoError

\* ------------------------------------------------------------ concurrency
Quiet == \A t \in Threads : th[t].pc \in {"idle", "done", "raised"}
Handled(k) == {t \in Threads : th[t].pc = "done" /\ ThreadKey(t) = k}

\* C3: under every interleaving, once the requests in flight have finished,
\* the counter of a key equals the number of requests handled with that
\* key, and no request failed on a key or a map changed by another one.
C3_CountersExactAndNoFailure ==
    Quiet =>
        /\ \A t \in Threads : th[t].pc # "raised"
        /\ \A t \in Threads :
              (th[t].pc = "done" /\ ThreadKey(t) \in DOMAIN request_counts) =>
                  request_counts[ThreadKey(t)]
                      = Cardinality(Handled(ThreadKey(t)))

\* ------------------------------------------------------- unparsable code
BackendInstalled(action) ==
    \/ action = "check"
    \/ action = "format" /\ installed.black
    \/ action = "complexity" /\ installed.radon

\* C11: a code that passes validation but does not parse is answered 200
\* with the in-band status=error by check, format and complexity (backend
\* installed), never with a 4xx or 5xx.
C11_UnparsableIs200 ==
    (/\ Admitted
     /\ ValidObject
     /\ GetCode(req.body).comp # "ok"
     /\ GetAction(req.body) \in {"check", "format", "complexity"}
     /\ BackendInstalled(GetAction(req.body))) =>
        (resp.http = 200 /\ resp.status = "error")

\* ------------------------------------------------------ outermost boundary
\* C12: every request ends with one response in the envelope shape: a
\* failure raised at any stage, the rate limiter included, that is not
\* handled closer to its origin becomes the generic 500 envelope, and the
\* raw fault never reaches the caller.
C12_NoRawFault ==
    \A t \in Threads : th[t].pc # "propagated"

\* ------------------------------------------------------------- complexity
Analyzed == resp.status = "success" /\ resp.payload.kind = "analysis"

\* the scores of the reported functions added up
RECURSIVE SumOfScores(_)
SumOfScores(fs) ==
    IF fs = <<>> THEN 0 ELSE Head(fs).complexity + SumOfScores(Tail(fs))

\* C13: in a successful analysis total_complexity is the sum of the scores
\* of the reported functions, and the assessment is Low up to 10, Moderate
\* for 11..20, High for 21..50, Very high from 51.
C13_TotalIsSumAndBands ==
    Analyzed =>
        LET a == resp.payload
            t == a.total_complexity
        IN  /\ t = SumOfScores(a.functions)
            /\ (t <= 10) <=> (a.assessment = "Low complexity")
            /\ (t \in 11..20) <=> (a.assessment = "Moderate complexity")
            /\ (t \in 21..50) <=> (a.assessment = "High complexity")
            /\ (t >= 51) <=> (a.assessment = "Very high complexity")

C13_Witness ==
    /\ Analyzed
    /\ resp.payload.total_complexity = 10
    /\ Len(resp.payload.functions) = 2
    /\ resp.payload.assessment = "Low complexity"

Recommended == resp.status = "recommended"
Rules(recs) == {recs[i].rule : i \in DOMAIN recs}
\* the positions of the functions over the threshold
HighAt(fs) == {i \in DOMAIN fs : fs[i].complexity > 10}

\* C14: get_complexity_recommendations returns the messages of the rules
\* that fire, in the order decomposition (total > 20), names of the
\* functions over 10 (if any), modularization (more than 10 functions);
\* each fires on its own, and the positive message is returned iff none
\* fired, alone.
C14_RulesIndependentAndOrdered ==
    Recommended =>
        LET recs == resp.payload.recommendations
            t == resp.payload.total_complexity
            fs == Functions(req.env.radon.results)
        IN  /\ ("decompose" \in Rules(recs)) <=> (t > 20)
            /\ ("high" \in Rules(recs)) <=> (HighAt(fs) # {})
            /\ ("modularize" \in Rules(recs)) <=> (Len(fs) > 10)
            /\ ("good" \in Rules(recs)) <=>
                  (t <= 20 /\ HighAt(fs) = {} /\ Len(fs) <= 10)
            /\ ("good" \in Rules(recs)) => Len(recs) = 1
            /\ recs # <<>>
            /\ \A i, j \in DOMAIN recs :
                  i < j => \/ recs[i].rule = "decompose"
                              /\ recs[j].rule \in {"high", "modularize"}
                           \/ recs[i].rule = "high"
                              /\ recs[j].rule = "modularize"
            /\ \A i \in DOMAIN recs :
                  recs[i].rule = "high" =>
                      /\ {recs[i].names[n] : n \in DOMAIN recs[i].names}
                            = {fs[k].name : k \in HighAt(fs)}
                      /\ Len(recs[i].names) = Cardinality(HighAt(fs))

C14_Witness ==
    /\ Recommended
    /\ Len(resp.payload.recommendations) = 3
    /\ resp.payload.total_complexity > 20

\* C15: in a successful analysis the maintainability index is the number
\* the backend produced (to two decimals) whenever it produced a number,
\* the value 0 included, and the unavailable marker is returned only when
\* the backend produced no number.
C15_IndexIsBackendNumber ==
    Analyzed =>
        LET mi == req.env.radon.mi
            shown == resp.payload.maintainability_index
        IN  /\ mi.numeric => (~shown.na /\ shown.value = Round2(mi.value))
            /\ shown.na => ~mi.numeric

\* ------------------------------------------------------------- formatting
FormatAnswer == resp.payload.kind = "format"
\* the two texts are equal once leading and trailing whitespace is removed
TrimEqual(a, b) == a.core = b.core /\ a.style = b.style
SecondPass == Answered /\ req.k = 2

ChangedFlagExact ==
    FormatAnswer =>
        (~resp.payload.changed
            <=> TrimEqual(req.body.code, resp.payload.formatted_code))

\* C16 as stated: for every parsable code, the formatted_code of a first
\* format request submitted to a second one comes back identical with
\* changed=false; changed is false exactly when the two texts are equal
\* after trimming.
C16_Original ==
    /\ SecondPass =>
          /\ FormatAnswer
          /\ resp.payload.formatted_code = req.body.code
          /\ ~resp.payload.changed
    /\ ChangedFlagExact

\* C16 amended: for every parsable code whose formatted_code is at most
\* 50,000 characters long, the formatted_code of a first format request
\* submitted to a second one comes back identical with changed=false (black
\* leaving its own output as it is); a formatted_code longer than 50,000
\* characters is refused by the second request with 400 and the oversize
\* message; changed is false exactly when the two texts are equal after
\* trimming.
C16_IdempotentWithinLimit ==
    /\ SecondPass =>
          IF StrLen(req.body.code) <= MAX_CODE_LEN
          THEN /\ FormatAnswer
               /\ resp.http = 200
               /\ resp.payload.formatted_code = req.body.code
               /\ ~resp.payload.changed
          ELSE resp.http = 400 /\ resp.message = MsgTooLarge
    /\ ChangedFlagExact

C16_Witness ==
    /\ SecondPass
    /\ FormatAnswer
    /\ resp.payload.formatted_code = req.body.code
    /\ ~resp.payload.changed
    /\ StrLen(req.body.code) = MAX_CODE_LEN

\* ---------------------------------------------------------------- linting
\* the texts of the body that come from the linter or from an exception
BodyTexts ==
    IF resp.payload.kind = "lint"
    THEN {resp.payload.errors[i] : i \in DOMAIN resp.payload.errors}
            \cup {resp.payload.failure}
    ELSE {}

\* C17: no response to a lint request contains the path of the temporary
\* artifact, whatever the linter printed (the path followed by a colon or
\* not) and whatever failure message went into a 500 envelope.
C17_NoPathInResponse ==
    (Answered /\ IsObject(req.body) /\ GetAction(req.body) = "lint") =>
        \A text \in BodyTexts : ~Mentions(text)

\* ------------------------------------------------------ the map of counters
\* the step is the handling of one request
RequestStep == \E c \in ClientIps : sent'[c] = sent[c] + 1

\* k is a key of client c
BelongsTo(k, c) == \E t \in 0..now : k = Key(c, Strftime(t))

\* the counter under k is the same before and after the step
Kept(k) ==
    /\ k \in DOMAIN request_counts'
    /\ request_counts'[k] = request_counts[k]

\* C18 as stated: the first request of a client in a bucket removes that
\* client's entries of the other buckets, and no call for a client deletes
\* or modifies a counter of another client.
C18_Original ==
    [][RequestStep =>
         LET caller == req'.client
             key == Key(caller, Strftime(now))
         IN  /\ \A k \in DOMAIN request_counts :
                   ~BelongsTo(k, caller) => Kept(k)
             /\ key \notin DOMAIN request_counts =>
                   \A k \in DOMAIN request_counts' :
                       BelongsTo(k, caller) => k = key]_vars

\* C18 amended: the first request of a client in a bucket removes every
\* entry of every client that is not of the current bucket, the caller's
\* and the other clients' alike, and leaves the current-bucket counters of
\* the other clients as they were; a request that is not the first of its
\* client in the bucket deletes nothing and changes only its own counter.
C18_SweepsEveryStaleKey ==
    [][RequestStep =>
         LET caller == req'.client
             key == Key(caller, Strftime(now))
             first == key \notin DOMAIN request_counts
         IN  /\ key \in DOMAIN request_counts'
             /\ \A c \in ClientIps, t \in 0..now :
                   LET k == Key(c, Strftime(t))
                   IN  k # key =>
                         IF k \in DOMAIN request_counts /\ (t = now \/ ~first)
                         THEN Kept(k)
                         ELSE k \notin DOMAIN request_counts']_vars

\* the last request was the first of its client in its minute and swept the
\* entry of a client of the minute before who has not come back
C18_Witness ==
    /\ now >= 1
    /\ req.minute = now
    /\ req.k = 1
    /\ \E c \in ClientIps \ {req.client} :
          /\ c \in saturated
          /\ sent[c] = 0
          /\ \A t \in 0..now : Key(c, Strftime(t)) \notin DOMAIN request_counts

\* the clients seen in the current minute
Seen == {c \in ClientIps : sent[c] > 0}

\* the request handled last is of the current minute
JustHandled == Answered /\ req.minute = now

\* C19: after every request the map holds only keys of the current minute,
\* so it has at most one entry per client seen in the current minute,
\* however many minutes went by and whichever clients never came back.
C19_OnlyCurrentBucket ==
    JustHandled =>
        /\ \A k \in DOMAIN request_counts : EndsWith(k, Strftime(now))
        /\ Cardinality(DOMAIN request_counts) <= Cardinality(Seen)

\* both clients were there the minute before, one of them came back
C19_Witness ==
    /\ JustHandled
    /\ now >= 1
    /\ Cardinality(Seen) = 1
    /\ saturated = ClientIps
    /\ Cardinality(DOMAIN request_counts) = 1

\* C20: after every request the counter of (client, current minute) is the
\* number of requests received from that client in that minute whatever
\* their outcome (400, 429, a failed backend), so it grows past the
\* threshold and the client stays rejected until the minute changes.
C20_CounterCountsEveryRequest ==
    JustHandled =>
        /\ \A c \in Seen :
              /\ Key(c, Strftime(now)) \in DOMAIN request_counts
              /\ request_counts[Key(c, Strftime(now))] = sent[c]
        /\ req.k > max_requests => resp.http = 429

\* a request rejected after another rejected one, the 400 and the failed
\* backend counted before it
C20_Witness ==
    /\ JustHandled
    /\ resp.http = 429
    /\ req.k >= max_requests + 2
    /\ request_counts[Key(req.client, Strftime(now))] = req.k
====
